---------------------------- MODULE Spec2Model ----------------------------
(***************************************************************************)
(* Pointer-level model of queue.c: a circular doubly-linked queue of       *)
(* string elements built on the intrusive list primitives of list.h.       *)
(*                                                                         *)
(* Addresses are small integers.  Address 0 is the sentinel allocated by   *)
(* q_new, addresses 1..MaxNodes are the element_t slots malloc can hand    *)
(* out, NULL is the absent pointer.  A call of a C function is an operator *)
(* from a machine record M (the heap plus the call's outcome) to a machine *)
(* record.  M.out is "ok" when the call returned, "hang" when one of its   *)
(* loops never ends, and "ub" when it dereferenced NULL, a freed block or  *)
(* wrote outside a buffer; "ub" stands for every outcome the build can     *)
(* produce, so nothing is assumed about the heap of such a record.         *)
(***************************************************************************)
EXTENDS Integers, Sequences, FiniteSets, TLC

MaxNodes  == 3      \* element_t slots malloc can hand out
MaxStrLen == 1      \* longest input string
NumChars  == 2      \* size of the alphabet of the input strings
MaxBuf    == 2      \* largest capacity of the caller's output buffer

SizeBits  == 16     \* width of size_t in the model
SizeMod   == 2 ^ SizeBits

NULL   == -1
UNINIT == -2        \* content of a byte malloc has not written
Elems  == 1..MaxNodes
Nodes  == 0..MaxNodes
Chars  == 1..NumChars

(* C strings: a buffer is a sequence of bytes, byte 0 is the terminator.   *)
RECURSIVE SeqsUpTo(_)
SeqsUpTo(k) ==
    IF k = 0 THEN {<<>>}
    ELSE LET S == SeqsUpTo(k - 1)
         IN S \cup {Append(t, c) : t \in {u \in S : Len(u) = k - 1}, c \in Chars}

Strings == {Append(t, 0) : t \in SeqsUpTo(MaxStrLen)}

strlen(b) == CHOOSE k \in 0..(Len(b) - 1) :
                 b[k + 1] = 0 /\ \A j \in 1..k : b[j] # 0

(* strncpy(dst, src, n): copies up to the terminator of src, then pads     *)
(* with zero bytes until n bytes are written; bytes past n are untouched.  *)
strncpy(dst, src, n) ==
    [i \in 1..Len(dst) |->
        IF i <= n THEN (IF i <= strlen(src) THEN src[i] ELSE 0) ELSE dst[i]]

RECURSIVE StrCmpAt(_, _, _)
StrCmpAt(a, b, i) ==
    IF a[i] # b[i] THEN (IF a[i] < b[i] THEN -1 ELSE 1)
    ELSE IF a[i] = 0 THEN 0
    ELSE StrCmpAt(a, b, i + 1)

strcmp(a, b) == StrCmpAt(a, b, 1)

(***************************************************************************)
(* Heap access                                                             *)
(***************************************************************************)
Deref(M, p) == p \in Nodes /\ M.alloc[p]     \* p points to a live list_head
Entry(M, p) == p \in Elems /\ M.alloc[p]     \* list_entry(p) is a live element_t
UB(M)       == [M EXCEPT !.out = "ub"]
Hang(M)     == [M EXCEPT !.out = "hang"]
Ret(M, r)   == IF M.out = "ok" THEN [M EXCEPT !.ret = r] ELSE M

INIT_LIST_HEAD(M, p) ==
    IF M.out # "ok" THEN M
    ELSE IF ~Deref(M, p) THEN UB(M)
    ELSE [M EXCEPT !.next[p] = p, !.prev[p] = p]

list_empty(M, h) == M.next[h] = h

list_is_singular(M, h) == ~list_empty(M, h) /\ M.prev[h] = M.next[h]

list_add(M, node, h) ==
    IF M.out # "ok" THEN M
    ELSE IF ~Deref(M, h) \/ ~Deref(M, node) THEN UB(M)
    ELSE LET nx == M.next[h] IN
         IF ~Deref(M, nx) THEN UB(M)
         ELSE LET M1 == [M  EXCEPT !.prev[nx] = node]
                  M2 == [M1 EXCEPT !.next[node] = nx]
                  M3 == [M2 EXCEPT !.prev[node] = h]
              IN  [M3 EXCEPT !.next[h] = node]

list_add_tail(M, node, h) ==
    IF M.out # "ok" THEN M
    ELSE IF ~Deref(M, h) \/ ~Deref(M, node) THEN UB(M)
    ELSE LET pv == M.prev[h] IN
         IF ~Deref(M, pv) THEN UB(M)
         ELSE LET M1 == [M  EXCEPT !.next[pv] = node]
                  M2 == [M1 EXCEPT !.next[node] = h]
                  M3 == [M2 EXCEPT !.prev[node] = pv]
              IN  [M3 EXCEPT !.prev[h] = node]

list_del(M, node) ==
    IF M.out # "ok" THEN M
    ELSE IF ~Deref(M, node) THEN UB(M)
    ELSE LET nx == M.next[node]
             pv == M.prev[node]
         IN  IF ~Deref(M, nx) \/ ~Deref(M, pv) THEN UB(M)
             ELSE LET M1 == [M EXCEPT !.prev[nx] = pv]
                  IN  [M1 EXCEPT !.next[pv] = nx]

list_del_init(M, node) == INIT_LIST_HEAD(list_del(M, node), node)

(* malloc(sizeof(element_t)) returning address n; free() of a block.  The  *)
(* content of a freed block cannot be read without "ub", so it is reset.   *)
Malloc(M, n) == [M EXCEPT !.alloc[n] = TRUE]

Free(M, n) ==
    [M EXCEPT !.alloc[n] = FALSE, !.next[n] = NULL, !.prev[n] = NULL,
              !.val[n] = <<>>]

(* malloc(strlen(s) + 1); strncpy(value, s, strlen(s)); value[strlen(s)] = 0 *)
CopyString(s) ==
    LET len == strlen(s)
        b0  == [i \in 1..(len + 1) |-> UNINIT]
        b1  == strncpy(b0, s, len)
    IN  [b1 EXCEPT ![len + 1] = 0]

q_release_element(M, e) ==
    IF M.out # "ok" THEN M
    ELSE IF ~Entry(M, e) THEN UB(M)
    ELSE Free(M, e)

(***************************************************************************)
(* Free.  list_for_each_entry_safe reads the next entry's link before the  *)
(* body runs on the current one; every iteration frees a block, and a      *)
(* freed block cannot be visited again without "ub", so the loop ends.     *)
(***************************************************************************)
RECURSIVE free_loop(_, _, _, _)
free_loop(M, l, to_free, next_to_free) ==
    IF M.out # "ok" THEN M
    ELSE IF to_free = l THEN M
    ELSE LET M1 == q_release_element(M, to_free) IN
         IF M1.out # "ok" THEN M1
         ELSE IF ~Deref(M1, next_to_free) THEN UB(M1)
         ELSE free_loop(M1, l, next_to_free, M1.next[next_to_free])

q_free(M, l) ==
    IF l = NULL THEN M
    ELSE IF ~Deref(M, l) THEN UB(M)
    ELSE LET first == M.next[l] IN
         IF ~Deref(M, first) THEN UB(M)
         ELSE LET M1 == free_loop(M, l, first, M.next[first]) IN
              IF M1.out # "ok" THEN M1
              ELSE [M1 EXCEPT !.alloc[l] = FALSE, !.next[l] = NULL,
                              !.prev[l] = NULL]

(***************************************************************************)
(* Insertion.  fail says which malloc of the call returns NULL.            *)
(***************************************************************************)
(* Mutant: links the new element before the sentinel instead of after it. *)
q_insert_head_at_tail(M, h, s, n, fail) ==
    IF h = NULL THEN Ret(M, 0)
    ELSE IF fail = "shell" THEN Ret(M, 0)
    ELSE IF fail = "value" THEN Ret(Free(Malloc(M, n), n), 0)
    ELSE LET M1 == [Malloc(M, n) EXCEPT !.val[n] = CopyString(s)]
         IN  Ret(list_add_tail(M1, n, h), 1)

q_insert_head(M, h, s, n, fail) ==
    IF h = NULL THEN Ret(M, 0)
    ELSE IF fail = "shell" THEN Ret(M, 0)
    ELSE IF fail = "value" THEN Ret(Free(Malloc(M, n), n), 0)
    ELSE LET M1 == [Malloc(M, n) EXCEPT !.val[n] = CopyString(s)]
         IN  Ret(list_add(M1, n, h), 1)

q_insert_tail(M, h, s, n, fail) ==
    IF h = NULL THEN Ret(M, 0)
    ELSE IF fail = "shell" THEN Ret(M, 0)
    ELSE IF fail = "value" THEN UB(Malloc(M, n))
    ELSE LET M1 == [Malloc(M, n) EXCEPT !.val[n] = CopyString(s)]
         IN  Ret(list_add_tail(M1, n, h), 1)

(***************************************************************************)
(* Removal.  hasSp says whether sp is non-NULL; sp is the caller's buffer  *)
(* of bufsize bytes.  bufsize - 1 is computed in size_t.                   *)
(***************************************************************************)
(* Mutant: copies bufsize - 1 bytes and leaves sp[bufsize - 1] as it was. *)
CopyOut_no_terminator(M, e, hasSp, sp, bufsize) ==
    IF M.out # "ok" \/ ~hasSp THEN M
    ELSE LET n == (bufsize - 1) % SizeMod IN
         IF ~Entry(M, e) \/ n > Len(sp) \/ n + 1 > Len(sp) THEN UB(M)
         ELSE [M EXCEPT !.buf = strncpy(sp, M.val[e], n)]

CopyOut(M, e, hasSp, sp, bufsize) ==
    IF M.out # "ok" \/ ~hasSp THEN M
    ELSE LET n == (bufsize - 1) % SizeMod IN
         IF ~Entry(M, e) \/ n > Len(sp) \/ n + 1 > Len(sp) THEN UB(M)
         ELSE LET b1 == strncpy(sp, M.val[e], n)
              IN  [M EXCEPT !.buf = [b1 EXCEPT ![n + 1] = 0]]

(* Mutant: unlinks with list_del, leaving the node's own pointers alone. *)
q_remove_head_no_init(M, h, hasSp, sp, bufsize) ==
    IF h = NULL THEN Ret(M, NULL)
    ELSE IF ~Deref(M, h) THEN UB(M)
    ELSE IF list_empty(M, h) THEN Ret(M, NULL)
    ELSE LET head_element == M.next[h]
             M1 == list_del(M, head_element)
         IN  Ret(CopyOut(M1, head_element, hasSp, sp, bufsize), head_element)

(* Mutant: takes the element before the sentinel instead of the one after. *)
q_remove_head_last(M, h, hasSp, sp, bufsize) ==
    IF h = NULL THEN Ret(M, NULL)
    ELSE IF ~Deref(M, h) THEN UB(M)
    ELSE IF list_empty(M, h) THEN Ret(M, NULL)
    ELSE LET head_element == M.prev[h]
             M1 == list_del_init(M, head_element)
         IN  Ret(CopyOut(M1, head_element, hasSp, sp, bufsize), head_element)

q_remove_head(M, h, hasSp, sp, bufsize) ==
    IF h = NULL THEN Ret(M, NULL)
    ELSE IF ~Deref(M, h) THEN UB(M)
    ELSE IF list_empty(M, h) THEN Ret(M, NULL)
    ELSE LET head_element == M.next[h]
             M1 == list_del_init(M, head_element)
         IN  Ret(CopyOut(M1, head_element, hasSp, sp, bufsize), head_element)

(* Mutant: does not test for the empty queue. *)
q_remove_tail_unguarded(M, h, hasSp, sp, bufsize) ==
    IF h = NULL THEN Ret(M, NULL)
    ELSE IF ~Deref(M, h) THEN UB(M)
    ELSE LET tail_element == M.prev[h]
             M1 == list_del_init(M, tail_element)
         IN  Ret(CopyOut(M1, tail_element, hasSp, sp, bufsize), tail_element)

q_remove_tail(M, h, hasSp, sp, bufsize) ==
    IF h = NULL THEN Ret(M, NULL)
    ELSE IF ~Deref(M, h) THEN UB(M)
    ELSE IF list_empty(M, h) THEN Ret(M, NULL)
    ELSE LET tail_element == M.prev[h]
             M1 == list_del_init(M, tail_element)
         IN  Ret(CopyOut(M1, tail_element, hasSp, sp, bufsize), tail_element)

(***************************************************************************)
(* Size.  A loop that comes back to a configuration it has been in never   *)
(* ends: seen holds the configurations of the earlier iterations.          *)
(***************************************************************************)
RECURSIVE size_loop(_, _, _, _, _)
size_loop(M, h, running, num, seen) ==
    IF running = h THEN Ret(M, num)
    ELSE IF ~Deref(M, running) THEN UB(M)
    ELSE IF running \in seen THEN Hang(M)
    ELSE size_loop(M, h, M.next[running], num + 1, seen \cup {running})

(* Mutant: the count starts at 1. *)
q_size_from_one(M, h) ==
    IF h = NULL THEN Ret(M, 0)
    ELSE IF ~Deref(M, h) THEN UB(M)
    ELSE IF list_empty(M, h) THEN Ret(M, 0)
    ELSE size_loop(M, h, M.next[h], 1, {})

q_size(M, h) ==
    IF h = NULL THEN Ret(M, 0)
    ELSE IF ~Deref(M, h) THEN UB(M)
    ELSE IF list_empty(M, h) THEN Ret(M, 0)
    ELSE size_loop(M, h, M.next[h], 0, {})

(***************************************************************************)
(* Delete middle                                                           *)
(***************************************************************************)
RECURSIVE mid_loop(_, _, _, _, _)
mid_loop(M, h, first, second, seen) ==
    IF second = h THEN Ret(M, first)
    ELSE IF ~Deref(M, second) THEN UB(M)
    ELSE IF M.next[second] = h THEN Ret(M, first)
    ELSE IF ~Deref(M, first) \/ ~Deref(M, M.next[second]) THEN UB(M)
    ELSE IF <<first, second>> \in seen THEN Hang(M)
    ELSE mid_loop(M, h, M.next[first], M.next[M.next[second]],
                  seen \cup {<<first, second>>})

(* Mutant: the fast pointer starts one node ahead of the slow one. *)
q_delete_mid_fast_ahead(M, h) ==
    IF h = NULL THEN Ret(M, 0)
    ELSE IF ~Deref(M, h) THEN UB(M)
    ELSE IF list_empty(M, h) THEN Ret(M, 0)
    ELSE LET L == mid_loop(M, h, M.next[h], M.next[M.next[h]], {}) IN
         IF L.out # "ok" THEN L
         ELSE Ret(q_release_element(list_del(M, L.ret), L.ret), 1)

q_delete_mid(M, h) ==
    IF h = NULL THEN Ret(M, 0)
    ELSE IF ~Deref(M, h) THEN UB(M)
    ELSE IF list_empty(M, h) THEN Ret(M, 0)
    ELSE LET L == mid_loop(M, h, M.next[h], M.next[h], {}) IN
         IF L.out # "ok" THEN L
         ELSE Ret(q_release_element(list_del(M, L.ret), L.ret), 1)

(***************************************************************************)
(* Delete duplicates                                                       *)
(***************************************************************************)
RECURSIVE dup_loop(_, _, _, _, _)
dup_loop(M, h, first, second, seen) ==
    IF ~Deref(M, second) THEN UB(M)
    ELSE IF M.next[second] = h THEN M
    ELSE IF <<M.next, second>> \in seen THEN Hang(M)
    ELSE LET M1 == IF first # second
                   THEN [M EXCEPT !.next[first] = second]
                   ELSE M
         IN  dup_loop(M1, h, first, M1.next[second],
                      seen \cup {<<M.next, second>>})

q_delete_dup(M, h) ==
    IF h = NULL THEN Ret(M, 0)
    ELSE Ret(dup_loop(M, h, h, h, {}), 1)

(***************************************************************************)
(* Pairwise swap                                                           *)
(***************************************************************************)
RECURSIVE swap_loop(_, _, _, _)
swap_loop(M, h, first, seen) ==
    IF first = h THEN M
    ELSE IF ~Deref(M, first) THEN UB(M)
    ELSE IF M.next[first] = h THEN M
    ELSE IF <<M.next, M.prev, first>> \in seen THEN Hang(M)
    ELSE LET second == M.next[first] IN
         IF ~Deref(M, second) THEN UB(M)
         ELSE LET M1 == [M EXCEPT !.next[first] = M.next[second]] IN
              IF ~Deref(M1, M1.next[first]) THEN UB(M1)
              ELSE LET M2 == [M1 EXCEPT !.prev[M1.next[first]] = first]
                       M3 == [M2 EXCEPT !.prev[second] = M2.prev[first]]
                   IN  IF ~Deref(M3, M3.prev[second]) THEN UB(M3)
                       ELSE LET M4 == [M3 EXCEPT !.next[M3.prev[second]] = second]
                                M5 == [M4 EXCEPT !.next[second] = first]
                                M6 == [M5 EXCEPT !.prev[first] = second]
                            IN  swap_loop(M6, h, M6.next[first],
                                    seen \cup {<<M.next, M.prev, first>>})

(* Mutant: the walk starts at the second element. *)
q_swap_from_second(M, h) ==
    IF ~Deref(M, h) \/ ~Deref(M, M.next[h]) THEN UB(M)
    ELSE swap_loop(M, h, M.next[M.next[h]], {})

q_swap(M, h) ==
    IF ~Deref(M, h) THEN UB(M)
    ELSE swap_loop(M, h, M.next[h], {})

(***************************************************************************)
(* Reverse                                                                 *)
(***************************************************************************)
RECURSIVE reverse_loop(_, _, _, _, _)
reverse_loop(M, h, running, safe, seen) ==
    IF running = h
    THEN LET M1 == [M EXCEPT !.next[running] = M.prev[running]]
         IN  [M1 EXCEPT !.prev[running] = safe]
    ELSE IF <<M.next, M.prev, running, safe>> \in seen THEN Hang(M)
    ELSE LET M1 == [M  EXCEPT !.next[running] = M.prev[running]]
             M2 == [M1 EXCEPT !.prev[running] = safe]
         IN  IF ~Deref(M2, safe) THEN UB(M2)
             ELSE reverse_loop(M2, h, safe, M2.next[safe],
                      seen \cup {<<M.next, M.prev, running, safe>>})

(* Mutant: the sentinel's next pointer is not exchanged after the loop. *)
RECURSIVE reverse_loop_keep_next(_, _, _, _, _)
reverse_loop_keep_next(M, h, running, safe, seen) ==
    IF running = h
    THEN [M EXCEPT !.prev[running] = safe]
    ELSE IF <<M.next, M.prev, running, safe>> \in seen THEN Hang(M)
    ELSE LET M1 == [M  EXCEPT !.next[running] = M.prev[running]]
             M2 == [M1 EXCEPT !.prev[running] = safe]
         IN  IF ~Deref(M2, safe) THEN UB(M2)
             ELSE reverse_loop_keep_next(M2, h, safe, M2.next[safe],
                      seen \cup {<<M.next, M.prev, running, safe>>})

q_reverse_keep_next(M, h) ==
    IF ~Deref(M, h) THEN UB(M)
    ELSE IF M.next[h] = NULL THEN M
    ELSE IF ~Deref(M, M.next[h]) THEN UB(M)
    ELSE reverse_loop_keep_next(M, h, M.next[h], M.next[M.next[h]], {})

q_reverse(M, h) ==
    IF ~Deref(M, h) THEN UB(M)
    ELSE IF M.next[h] = NULL THEN M
    ELSE IF ~Deref(M, M.next[h]) THEN UB(M)
    ELSE reverse_loop(M, h, M.next[h], M.next[M.next[h]], {})

(***************************************************************************)
(* Merge sort on the NULL-terminated forward chain.  tail is the node      *)
(* whose next field ptr points to, NULL while ptr points to new_head.      *)
(***************************************************************************)
Store(M, new_head, tail, p) ==           \* *ptr = p
    IF tail = NULL THEN [M |-> M, new_head |-> p]
    ELSE [M |-> [M EXCEPT !.next[tail] = p], new_head |-> new_head]

(* Mutant: the comparison is turned round (> 0 instead of < 0). *)
RECURSIVE merge_loop_gt(_, _, _, _, _, _)
merge_loop_gt(M, first, second, new_head, tail, seen) ==
    IF first # NULL /\ second # NULL
    THEN IF ~Entry(M, first) \/ ~Entry(M, second) THEN UB(M)
         ELSE IF <<M.next, first, second, tail>> \in seen THEN Hang(M)
         ELSE LET seen1 == seen \cup {<<M.next, first, second, tail>>} IN
              IF strcmp(M.val[first], M.val[second]) > 0
              THEN LET S == Store(M, new_head, tail, first)
                   IN  merge_loop_gt(S.M, S.M.next[first], second,
                                     S.new_head, first, seen1)
              ELSE LET S == Store(M, new_head, tail, second)
                   IN  merge_loop_gt(S.M, first, S.M.next[second],
                                     S.new_head, second, seen1)
    ELSE LET S == Store(M, new_head, tail,
                        IF first = NULL THEN second ELSE first)
         IN  Ret(S.M, S.new_head)

RECURSIVE merge_loop(_, _, _, _, _, _)
merge_loop(M, first, second, new_head, tail, seen) ==
    IF first # NULL /\ second # NULL
    THEN IF ~Entry(M, first) \/ ~Entry(M, second) THEN UB(M)
         ELSE IF <<M.next, first, second, tail>> \in seen THEN Hang(M)
         ELSE LET seen1 == seen \cup {<<M.next, first, second, tail>>} IN
              IF strcmp(M.val[first], M.val[second]) < 0
              THEN LET S == Store(M, new_head, tail, first)
                   IN  merge_loop(S.M, S.M.next[first], second,
                                  S.new_head, first, seen1)
              ELSE LET S == Store(M, new_head, tail, second)
                   IN  merge_loop(S.M, first, S.M.next[second],
                                  S.new_head, second, seen1)
    ELSE LET S == Store(M, new_head, tail,
                        IF first = NULL THEN second ELSE first)
         IN  Ret(S.M, S.new_head)

(* Mutant: returns the first run and drops the second. *)
merge_first_only(M, first, second) ==
    IF M.out # "ok" THEN M
    ELSE Ret(M, first)

merge(M, first, second) ==
    IF M.out # "ok" THEN M
    ELSE merge_loop(M, first, second, NULL, NULL, {})

RECURSIVE middle_loop(_, _, _, _)
middle_loop(M, first, second, seen) ==
    IF second = NULL THEN Ret(M, first)
    ELSE IF ~Deref(M, second) THEN UB(M)
    ELSE IF M.next[second] = NULL THEN Ret(M, first)
    ELSE IF ~Deref(M, first) \/ ~Deref(M, M.next[second]) THEN UB(M)
    ELSE IF <<first, second>> \in seen THEN Hang(M)
    ELSE middle_loop(M, M.next[first], M.next[M.next[second]],
                     seen \cup {<<first, second>>})

(* The two recursive calls are arguments of one call, so C leaves their    *)
(* order open; they work on the two chains the cut has separated, and      *)
(* neither reads or writes a node of the other.                            *)
RECURSIVE merge_sort(_, _)
merge_sort(M, head) ==
    IF M.out # "ok" THEN M
    ELSE IF head = NULL THEN Ret(M, head)
    ELSE IF ~Deref(M, head) THEN UB(M)
    ELSE IF M.next[head] = NULL THEN Ret(M, head)
    ELSE LET F == middle_loop(M, head, M.next[head], {}) IN
         IF F.out # "ok" THEN F
         ELSE IF ~Deref(M, F.ret) THEN UB(M)
         ELSE LET middle == M.next[F.ret]
                  M1 == [M EXCEPT !.next[F.ret] = NULL]
                  L  == merge_sort(M1, head)
                  R  == merge_sort(L, middle)
              IN  merge(R, L.ret, R.ret)

RECURSIVE reconnect_loop(_, _, _, _, _)
reconnect_loop(M, h, first, second, seen) ==
    IF second = NULL
    THEN IF ~Deref(M, first) THEN UB(M)
         ELSE LET M1 == [M EXCEPT !.next[first] = h]
              IN  [M1 EXCEPT !.prev[h] = first]
    ELSE IF ~Deref(M, second) \/ ~Deref(M, first) THEN UB(M)
    ELSE IF <<first, second>> \in seen THEN Hang(M)
    ELSE LET M1 == [M EXCEPT !.prev[second] = first]
         IN  reconnect_loop(M1, h, M1.next[first], M1.next[second],
                            seen \cup {<<first, second>>})

q_sort(M, h) ==
    IF h = NULL THEN M
    ELSE IF ~Deref(M, h) THEN UB(M)
    ELSE IF list_empty(M, h) \/ list_is_singular(M, h) THEN M
    ELSE IF ~Deref(M, M.prev[h]) THEN UB(M)
    ELSE LET M1 == [M EXCEPT !.next[M.prev[h]] = NULL]
             S  == merge_sort(M1, M1.next[h])
         IN  IF S.out # "ok" THEN S
             ELSE LET M2 == [S EXCEPT !.next[h] = S.ret]
                  IN  Ret(reconnect_loop(M2, h, h, M2.next[h], {}), 0)

(***************************************************************************)
(* Traversal order and well-formedness of the queue of a machine record.   *)
(***************************************************************************)
RECURSIVE Walk(_, _, _)
Walk(f, p, k) ==
    IF p \notin Elems \/ k = 0 THEN <<>>
    ELSE <<p>> \o Walk(f, f[p], k - 1)

Forward(M)  == Walk(M.next, M.next[0], MaxNodes + 1)

Backward(M) == Walk(M.prev, M.prev[0], MaxNodes + 1)

Rev(s) == [i \in 1..Len(s) |-> s[Len(s) + 1 - i]]

Range(s) == {s[i] : i \in 1..Len(s)}

Values(M) == [i \in 1..Len(Forward(M)) |-> M.val[Forward(M)[i]]]

(* Every node on the forward chain is allocated and x.next.prev = x and    *)
(* x.prev.next = x, so the chain is a cycle through the sentinel and the   *)
(* backward chain is its reverse.                                          *)
Linked(M) ==
    \A x \in {0} \cup Range(Forward(M)) :
        /\ Deref(M, x) /\ Deref(M, M.next[x]) /\ Deref(M, M.prev[x])
        /\ M.prev[M.next[x]] = x
        /\ M.next[M.prev[x]] = x

(* The live elements are the allocated ones the caller does not hold.      *)
Live(M, own) == {n \in Elems : M.alloc[n]} \ own

WellFormed(M, own) ==
    /\ Linked(M)
    /\ Range(Forward(M)) = Live(M, own)
    /\ Backward(M) = Rev(Forward(M))

(***************************************************************************)
(* The program: one queue pointer q returned by q_new, the heap, and the   *)
(* caller, which holds the elements the removals returned to it.           *)
(*   last    the last call: its arguments, what it returned, and the       *)
(*           queue it was made on (forward order fwd, the strings vals in  *)
(*           that order, wf: it was a well-formed queue)                   *)
(*   net     successful inserts minus successful removes, counted while    *)
(*           basic: only inserts, removes, releases and size queries ran   *)
(*   damage  0 while the queue is well formed, else the number of calls    *)
(*           that have returned since it stopped being so                  *)
(*   prior   after a q_remove_head that directly follows a successful      *)
(*           q_insert_head: that insert's string and the queue it was      *)
(*           made on                                                       *)
(***************************************************************************)
VARIABLES next, prev, alloc, val, status, q, owned, last, net, basic, damage,
          prior

vars == <<next, prev, alloc, val, status, q, owned, last, net, basic, damage,
          prior>>

MaxDamage == 3      \* calls followed on a queue that is no longer well formed

CurM == [next |-> next, prev |-> prev, alloc |-> alloc, val |-> val,
         out |-> "ok", ret |-> 0, buf |-> <<>>]

Blank == [next  |-> [n \in Nodes |-> NULL], prev |-> [n \in Nodes |-> NULL],
          alloc |-> [n \in Nodes |-> FALSE], val |-> [n \in Elems |-> <<>>]]

Call(name, ret, arg, hasSp, cap, buf, fwd, vals, wf) ==
    [op |-> name, ret |-> ret, arg |-> arg, sp |-> hasSp, cap |-> cap,
     buf |-> buf, fwd |-> fwd, vals |-> vals, wf |-> wf]

NoPrior == [on |-> FALSE, arg |-> <<>>, fwd |-> <<>>, wf |-> FALSE]

(* What a call named name, made now, follows. *)
Follows(name) ==
    IF name = "q_remove_head" /\ status = "ok"
       /\ last.op = "q_insert_head" /\ last.ret = 1
    THEN [on |-> TRUE, arg |-> last.arg, fwd |-> last.fwd, wf |-> last.wf]
    ELSE NoPrior

q_new(fail) ==
    IF fail THEN [Blank EXCEPT !.alloc[0] = FALSE]
    ELSE LET M1 == [Blank EXCEPT !.alloc[0] = TRUE]
         IN  [M1 EXCEPT !.next[0] = 0, !.prev[0] = 0]

Init ==
    \E fail \in BOOLEAN :
        LET M == q_new(fail) IN
        /\ q = IF fail THEN NULL ELSE 0
        /\ next = M.next
        /\ prev = M.prev
        /\ alloc = M.alloc
        /\ val = M.val
        /\ status = "ok"
        /\ owned = {}
        /\ last = Call("q_new", q, <<>>, FALSE, 0, <<>>, <<>>, <<>>, FALSE)
        /\ net = 0
        /\ basic = TRUE
        /\ damage = 0
        /\ prior = NoPrior

Ready == status = "ok" /\ damage < MaxDamage

Intact == q # NULL /\ WellFormed(CurM, owned)

(* The outcome of a call becomes the state.  A call that hangs or runs     *)
(* into undefined behaviour ends the run: only the call is remembered.     *)
Step(name, R, arg, b, isBasic, delta, own) ==
    /\ q' = q
    /\ status' = R.out
    /\ prior' = Follows(name)
    /\ IF R.out = "ok"
       THEN /\ next' = R.next
            /\ prev' = R.prev
            /\ alloc' = R.alloc
            /\ val' = R.val
            /\ last' = Call(name, R.ret, arg, b[1], b[2], R.buf,
                             Forward(CurM), Values(CurM), Intact)
            /\ owned' = own
            /\ basic' = (basic /\ isBasic)
            /\ net' = IF basic /\ isBasic THEN net + delta ELSE 0
            /\ damage' = IF damage > 0 \/ (q # NULL /\ ~WellFormed(R, own))
                         THEN damage + 1 ELSE 0
       ELSE /\ next' = Blank.next
            /\ prev' = Blank.prev
            /\ alloc' = Blank.alloc
            /\ val' = Blank.val
            /\ last' = Call(name, 0, arg, b[1], b[2], <<>>,
                             Forward(CurM), Values(CurM), Intact)
            /\ owned' = {}
            /\ basic' = FALSE
            /\ net' = 0
            /\ damage' = 0

NoBuf == <<FALSE, 0>>

FreeSlots == {n \in Elems : ~alloc[n]}

MallocChoices(fail) == IF fail = "shell" THEN {0} ELSE FreeSlots

Fails == {"none", "shell", "value"}

InsertHead ==
    /\ Ready
    /\ \E s \in Strings, fail \in Fails : \E n \in MallocChoices(fail) :
         LET R == q_insert_head(CurM, q, s, n, fail)
         IN  Step("q_insert_head", R, s, NoBuf, TRUE, R.ret, owned)

InsertTail ==
    /\ Ready
    /\ \E s \in Strings, fail \in Fails : \E n \in MallocChoices(fail) :
         LET R == q_insert_tail(CurM, q, s, n, fail)
         IN  Step("q_insert_tail", R, s, NoBuf, TRUE, R.ret, owned)

Buffers == {NoBuf} \cup {<<TRUE, c>> : c \in 0..MaxBuf}

Given(R) == IF R.ret = NULL THEN owned ELSE owned \cup {R.ret}

Taken(R) == IF R.ret = NULL THEN 0 ELSE -1

RemoveHead ==
    /\ Ready
    /\ \E b \in Buffers :
         LET R == q_remove_head(CurM, q, b[1], [i \in 1..b[2] |-> UNINIT], b[2])
         IN  Step("q_remove_head", R, <<>>, b, TRUE, Taken(R), Given(R))

RemoveTail ==
    /\ Ready
    /\ \E b \in Buffers :
         LET R == q_remove_tail(CurM, q, b[1], [i \in 1..b[2] |-> UNINIT], b[2])
         IN  Step("q_remove_tail", R, <<>>, b, TRUE, Taken(R), Given(R))

(* The caller releases an element a removal has returned to it. *)
Release ==
    /\ Ready
    /\ \E e \in owned :
         Step("q_release_element", Ret(q_release_element(CurM, e), e), <<>>,
              NoBuf, TRUE, 0, owned \ {e})

Size ==
    Ready /\ Step("q_size", q_size(CurM, q), <<>>, NoBuf, TRUE, 0, owned)

DeleteMid ==
    Ready /\ Step("q_delete_mid", q_delete_mid(CurM, q), <<>>, NoBuf, FALSE, 0, owned)

DeleteDup ==
    Ready /\ Step("q_delete_dup", q_delete_dup(CurM, q), <<>>, NoBuf, FALSE, 0, owned)

Swap ==
    Ready /\ Step("q_swap", q_swap(CurM, q), <<>>, NoBuf, FALSE, 0, owned)

Reverse ==
    Ready /\ Step("q_reverse", q_reverse(CurM, q), <<>>, NoBuf, FALSE, 0, owned)

Sort ==
    Ready /\ Step("q_sort", q_sort(CurM, q), <<>>, NoBuf, FALSE, 0, owned)

(* q_free of a queue ends the run: the caller's pointer q dangles.  What   *)
(* the caller holds stays allocated.                                       *)
QFree ==
    /\ Ready
    /\ LET R == q_free(CurM, q) IN
       IF q # NULL /\ R.out = "ok"
       THEN /\ q' = q
            /\ status' = "freed"
            /\ next' = R.next
            /\ prev' = R.prev
            /\ alloc' = R.alloc
            /\ val' = R.val
            /\ last' = Call("q_free", 0, <<>>, FALSE, 0, <<>>,
                             Forward(CurM), Values(CurM), Intact)
            /\ UNCHANGED owned
            /\ basic' = FALSE
            /\ net' = 0
            /\ damage' = damage
            /\ prior' = NoPrior
       ELSE Step("q_free", R, <<>>, NoBuf, FALSE, 0, owned)

Next ==
    \/ QFree
    \/ InsertHead
    \/ InsertTail
    \/ RemoveHead
    \/ RemoveTail
    \/ Release
    \/ Size
    \/ DeleteMid
    \/ DeleteDup
    \/ Swap
    \/ Reverse
    \/ Sort

Spec == Init /\ [][Next]_vars

(***************************************************************************)
(* Vocabulary of the properties                                            *)
(***************************************************************************)
Ok == status = "ok"

After(name) == last.op = name /\ last.wf     \* name was called on a well-formed queue

Cur == Forward(CurM)

CurVals == Values(CurM)

Ascending(vs) == \A i \in 1..(Len(vs) - 1) : strcmp(vs[i], vs[i + 1]) <= 0

Pos(s, x) == CHOOSE i \in 1..Len(s) : s[i] = x

Without(s, k) == [i \in 1..(Len(s) - 1) |-> IF i < k THEN s[i] ELSE s[i + 1]]

SwapPairs(s) ==
    [i \in 1..Len(s) |->
        IF i % 2 = 1 THEN (IF i + 1 <= Len(s) THEN s[i + 1] ELSE s[i])
        ELSE s[i - 1]]

(* The members of fwd whose string occurs once in vals, in their order. *)
RECURSIVE OnceFrom(_, _, _)
OnceFrom(fwd, vals, i) ==
    IF i > Len(fwd) THEN <<>>
    ELSE (IF \E j \in 1..Len(vals) : j # i /\ strcmp(vals[j], vals[i]) = 0
          THEN <<>> ELSE <<fwd[i]>>) \o OnceFrom(fwd, vals, i + 1)

ValidBuffer == ~last.sp \/ last.cap >= 1

(* Element e, at position k of the queue the call was made on, has been   *)
(* handed to the caller: unlinked, still allocated, its string as it was.  *)
Removed(e, k) ==
    /\ Ok /\ last.ret = e
    /\ Cur = Without(last.fwd, k) /\ CurVals = Without(last.vals, k)
    /\ alloc[e] /\ val[e] = last.vals[k] /\ e \in owned
    /\ next[e] = e /\ prev[e] = e

(***************************************************************************)
(* C1: after any sequence of public operations on a queue created by       *)
(* q_new the queue is well formed: the forward chain from the sentinel     *)
(* returns to it after every live element exactly once, and the backward   *)
(* chain is its reverse (x.next.prev = x and x.prev.next = x).             *)
(***************************************************************************)
C1_WellFormedAfterEveryCall == (Ok /\ q # NULL) => WellFormed(CurM, owned)

(***************************************************************************)
(* C2: after q_sort on a well-formed queue, every two elements adjacent in *)
(* forward order satisfy value(a) <= value(b) under strcmp.                *)
(***************************************************************************)
C2_SortAscending == After("q_sort") => (Ok /\ Ascending(CurVals))

C2_Witness ==
    /\ Ok /\ After("q_sort")
    /\ Len(Cur) = 3 /\ Cur # last.fwd
    /\ \E i \in 1..2 : strcmp(CurVals[i], CurVals[i + 1]) < 0

(***************************************************************************)
(* C3: q_delete_dup on a queue sorted in ascending order leaves, in their  *)
(* original order, exactly the elements whose value occurred once.         *)
(***************************************************************************)
C3_DeleteDupLeavesUnique ==
    (After("q_delete_dup") /\ Ascending(last.vals))
        => (Ok /\ Cur = OnceFrom(last.fwd, last.vals, 1))

(***************************************************************************)
(* C4: q_delete_mid on a queue of n >= 1 elements returns true, unlinks    *)
(* and releases the element at 0-based forward position floor(n/2), and    *)
(* leaves the others in their order.                                       *)
(***************************************************************************)
C4_DeleteMidFloorHalf ==
    (After("q_delete_mid") /\ Len(last.fwd) >= 1)
        => LET k == (Len(last.fwd) \div 2) + 1 IN
           /\ Ok /\ last.ret = 1
           /\ Cur = Without(last.fwd, k)
           /\ CurVals = Without(last.vals, k)
           /\ ~alloc[last.fwd[k]]

C4_Witness ==
    /\ Ok /\ After("q_delete_mid")
    /\ Len(last.fwd) = 3 /\ Len(Cur) = 2

(***************************************************************************)
(* C5: q_swap on e0,e1,...,e(n-1) puts e(2k+1) and e(2k) at positions 2k   *)
(* and 2k+1 for every 2k+1 < n, and leaves the last element of a queue of  *)
(* odd length in place.                                                    *)
(***************************************************************************)
C5_SwapPairs ==
    After("q_swap")
        => (Ok /\ Cur = SwapPairs(last.fwd) /\ CurVals = SwapPairs(last.vals))

C5_Witness ==
    /\ Ok /\ After("q_swap")
    /\ Len(Cur) = 3 /\ Cur[1] = last.fwd[2] /\ Cur[3] = last.fwd[3]

(***************************************************************************)
(* C6: q_reverse on a well-formed queue, the empty one included, makes the *)
(* forward order the reverse of what it was, and a second q_reverse        *)
(* restores the original forward order.                                    *)
(***************************************************************************)
C6_ReverseReverses ==
    After("q_reverse")
        => /\ Ok /\ Cur = Rev(last.fwd)
           /\ LET R == q_reverse(CurM, q)
              IN  R.out = "ok" /\ Forward(R) = last.fwd

C6_Witness ==
    /\ Ok /\ After("q_reverse")
    /\ Len(Cur) = 3 /\ Cur # last.fwd

(***************************************************************************)
(* C7: q_sort is stable: two elements with equal strings keep their        *)
(* relative order (in merge, on equal heads the first chain's element is   *)
(* emitted first).                                                         *)
(***************************************************************************)
C7_SortStable ==
    After("q_sort")
        => /\ Ok
           /\ \A i, j \in 1..Len(last.fwd) :
                (i < j /\ strcmp(last.vals[i], last.vals[j]) = 0)
                    => /\ last.fwd[i] \in Range(Cur) /\ last.fwd[j] \in Range(Cur)
                       /\ Pos(Cur, last.fwd[i]) < Pos(Cur, last.fwd[j])

(***************************************************************************)
(* C8: after any sequence of q_insert_head, q_insert_tail, q_remove_head   *)
(* and q_remove_tail calls that returned, q_size equals the number of      *)
(* successful inserts minus the number of removes that returned an         *)
(* element; q_size is 0 for an absent or an empty queue.                   *)
(***************************************************************************)
C8_SizeIsNetCount ==
    Ok => LET R == q_size(CurM, q) IN
          /\ basic => (R.out = "ok" /\ R.ret = net)
          /\ (basic /\ last.op = "q_size") => last.ret = net
          /\ (q = NULL \/ next[0] = 0) => (R.out = "ok" /\ R.ret = 0)

C8_Witness ==
    /\ Ok /\ basic /\ last.op = "q_size"
    /\ last.ret = 2 /\ net = 2 /\ owned # {}

(***************************************************************************)
(* C9: a successful q_insert_head makes the new element the first in       *)
(* forward order and a successful q_insert_tail the last; the stored       *)
(* string equals the input string and the elements already present keep    *)
(* their order.                                                            *)
(***************************************************************************)
C9_InsertAtEnds ==
    /\ (After("q_insert_head") /\ Ok /\ last.ret = 1)
           => /\ Len(Cur) = Len(last.fwd) + 1
              /\ Tail(Cur) = last.fwd
              /\ CurVals = <<last.arg>> \o last.vals
    /\ (After("q_insert_tail") /\ Ok /\ last.ret = 1)
           => /\ Len(Cur) = Len(last.fwd) + 1
              /\ SubSeq(Cur, 1, Len(last.fwd)) = last.fwd
              /\ CurVals = last.vals \o <<last.arg>>

C9_Witness ==
    /\ Ok /\ After("q_insert_head") /\ last.ret = 1
    /\ Len(Cur) = 3 /\ Len(last.arg) = 2
    /\ CurVals[1] # CurVals[2]

(***************************************************************************)
(* C10: on a non-empty queue q_remove_head returns the first element in    *)
(* forward order and q_remove_tail the last; the element is unlinked but   *)
(* not freed, its string is intact, its node's next and prev point to      *)
(* itself, and the remaining elements keep their order.                    *)
(***************************************************************************)
C10_RemoveAtEnds ==
    /\ (After("q_remove_head") /\ Len(last.fwd) >= 1 /\ ValidBuffer)
           => Removed(last.fwd[1], 1)
    /\ (After("q_remove_tail") /\ Len(last.fwd) >= 1 /\ ValidBuffer)
           => Removed(last.fwd[Len(last.fwd)], Len(last.fwd))

C10_Witness ==
    /\ Ok /\ After("q_remove_head")
    /\ Len(last.fwd) = 3 /\ last.ret = last.fwd[1] /\ Len(Cur) = 2


(***************************************************************************)
(* C11: q_insert_head(s) on a well-formed queue followed immediately by    *)
(* q_remove_head returns an element whose string equals s, and leaves the  *)
(* forward order of the queue as it was before the insert.                 *)
(***************************************************************************)
C11_InsertHeadThenRemoveHead ==
    (last.op = "q_remove_head" /\ prior.on /\ prior.wf /\ ValidBuffer)
        => /\ Ok /\ last.ret \in Elems
           /\ alloc[last.ret]
           /\ strcmp(val[last.ret], prior.arg) = 0
           /\ Len(val[last.ret]) = Len(prior.arg)
           /\ Cur = prior.fwd

C11_Witness ==
    /\ Ok /\ last.op = "q_remove_head" /\ prior.on /\ prior.wf
    /\ Len(prior.fwd) = 2 /\ strlen(prior.arg) = 1
    /\ last.sp /\ last.cap >= 1

Min(a, b) == IF a <= b THEN a ELSE b

(* Position, in the queue the call was made on, of the element a removal   *)
(* named name takes.                                                       *)
TakenAt(name) == IF name = "q_remove_head" THEN 1 ELSE Len(last.fwd)

(***************************************************************************)
(* C12: after q_remove_head or q_remove_tail removes an element with       *)
(* string v into a buffer of capacity c >= 1, the buffer holds the first   *)
(* min(len(v), c - 1) characters of v followed by a null terminator, and   *)
(* the removed element's own string is unchanged.                          *)
(***************************************************************************)
C12_BufferTruncates ==
    (/\ After("q_remove_head") \/ After("q_remove_tail")
     /\ last.fwd # <<>> /\ last.sp /\ last.cap >= 1)
        => LET v == last.vals[TakenAt(last.op)]
               n == Min(strlen(v), last.cap - 1)
           IN  /\ Ok /\ last.ret = last.fwd[TakenAt(last.op)]
               /\ Len(last.buf) = last.cap
               /\ \A i \in 1..n : last.buf[i] = v[i]
               /\ last.buf[n + 1] = 0
               /\ val[last.ret] = v

(* A one-character string was cut to the empty string by a buffer of       *)
(* capacity 1.                                                             *)
C12_Witness ==
    /\ Ok /\ After("q_remove_tail") /\ Len(last.fwd) = 2
    /\ last.sp /\ last.cap = 1
    /\ strlen(last.vals[2]) = 1 /\ last.buf = <<0>>
    /\ val[last.ret] = last.vals[2]

(* No block of the heap is allocated. *)
NothingAllocated == \A n \in Nodes : ~alloc[n]

(***************************************************************************)
(* C13: a public operation called with a NULL queue pointer is a no-op     *)
(* that returns false, absent or 0: it never dereferences the pointer, and *)
(* it allocates nothing.                                                   *)
(***************************************************************************)
C13_NullQueueIsNoOp ==
    q = NULL => (Ok /\ last.ret \in {0, NULL} /\ NothingAllocated)

(***************************************************************************)
(* C14: when an allocation of q_insert_head or q_insert_tail fails, the    *)
(* call returns false, the queue is as it was, nothing is written through  *)
(* the absent pointer, and the element shell already allocated is freed.   *)
(* On a well-formed queue an insert fails to return true only when one of  *)
(* its allocations has failed.                                             *)
(***************************************************************************)
C14_FailedInsertLeavesQueue ==
    (/\ After("q_insert_head") \/ After("q_insert_tail")
     /\ ~(Ok /\ last.ret = 1))
        => /\ Ok /\ last.ret = 0
           /\ Cur = last.fwd /\ CurVals = last.vals
           /\ WellFormed(CurM, owned)

(***************************************************************************)
(* C15: on an empty queue q_remove_head and q_remove_tail return absent    *)
(* and q_delete_mid returns false; the queue stays empty, the caller's     *)
(* buffer is not written, and nothing is freed.                            *)
(***************************************************************************)
C15_EmptyQueueUntouched ==
    (/\ After("q_remove_head") \/ After("q_remove_tail") \/ After("q_delete_mid")
     /\ last.fwd = <<>>)
        => /\ Ok
           /\ last.ret = (IF last.op = "q_delete_mid" THEN 0 ELSE NULL)
           /\ Cur = <<>> /\ next[q] = q /\ prev[q] = q
           /\ last.buf = <<>>
           /\ alloc[q] /\ \A e \in owned : alloc[e]
           /\ WellFormed(CurM, owned)

(* A removal into a buffer was tried on a queue emptied by earlier         *)
(* removals, while the caller still held an element.                       *)
C15_Witness ==
    /\ Ok /\ After("q_remove_tail") /\ last.fwd = <<>>
    /\ last.sp /\ last.cap = 2 /\ owned # {}

(* The blocks still allocated that the caller does not hold. *)
Leaked == {n \in Nodes : alloc[n]} \ owned

(***************************************************************************)
(* C16: after any sequence of public operations followed by q_free, every  *)
(* element the inserts allocated and no removal handed to the caller has   *)
(* been freed (no leak), and q_free has freed no block twice and read no   *)
(* freed block.                                                            *)
(***************************************************************************)
C16_FreeReleasesEverything ==
    (last.op = "q_free" /\ q # NULL) => (status = "freed" /\ Leaked = {})

(***************************************************************************)
(* C17: q_sort is idempotent: on a well-formed queue whose strings are     *)
(* already in ascending order, it leaves the elements in the forward order *)
(* they were in before the call.                                           *)
(***************************************************************************)
C17_SortIdempotent ==
    (After("q_sort") /\ Ascending(last.vals)) => (Ok /\ Cur = last.fwd)

(***************************************************************************)
(* C18: every public operation terminates on every state that a sequence   *)
(* of public operations can reach: no traversal runs for ever.             *)
(***************************************************************************)
C18_EveryCallTerminates == status # "hang"

Relinkers == {"q_swap", "q_reverse", "q_sort"}

(***************************************************************************)
(* C19: q_swap, q_reverse and q_sort on a well-formed queue only relink    *)
(* nodes: the set of elements reachable from the sentinel is the same      *)
(* before and after the call, every element's string is what it was, and   *)
(* no element is allocated or freed.                                       *)
(***************************************************************************)
C19_RelinkOnly ==
    (last.op \in Relinkers /\ last.wf)
        => /\ Ok
           /\ Range(Cur) = Range(last.fwd) /\ Len(Cur) = Len(last.fwd)
           /\ \A i \in 1..Len(last.fwd) :
                  alloc[last.fwd[i]] /\ val[last.fwd[i]] = last.vals[i]
           /\ Live(CurM, owned) = Range(last.fwd)

(* q_sort has moved the elements of a queue of three. *)
C19_Witness ==
    /\ Ok /\ After("q_sort") /\ Len(last.fwd) = 3 /\ Cur # last.fwd
    /\ Range(Cur) = Range(last.fwd)
    /\ \E i \in 1..3 : strlen(val[Cur[i]]) = 1

(***************************************************************************)
(* C20: for every buffer capacity c, 0 included, q_remove_head and         *)
(* q_remove_tail write only to indices 0 .. c - 1 of the caller's buffer:  *)
(* the copy length c - 1 does not wrap around.                             *)
(***************************************************************************)
C20_CopyStaysInBuffer ==
    (/\ After("q_remove_head") \/ After("q_remove_tail")
     /\ last.sp)
        => (Ok /\ (last.buf = <<>> \/ Len(last.buf) = last.cap))

=============================================================================
